---- MODULE Spec2Model ----
(***************************************************************************)
(* kg-utils: SparseSet<T> (src/src/collections/sparse_set.rs), OrdSet<T>   *)
(* (src/src/collections/ord_set.rs), the debug-build SyncRef<T>            *)
(* (src/src/sync.rs), strip_whitespace (src/src/ws.rs) and PrettyPrinter   *)
(* (src/src/lib.rs).                                                       *)
(*                                                                         *)
(* A set value is the record [capacity, len, dense, sparse]; the two       *)
(* buffers are functions over the offsets 0..capacity-1.  A slot that was  *)
(* allocated and never written holds Uninit; reading it yields an          *)
(* arbitrary value of T, which every action draws as its input g.          *)
(* The element type T is a signed integer type: its negative values do     *)
(* not convert to usize (TMin stands for them), its values above           *)
(* capacity-1 are out of range for the set.                                *)
(*                                                                         *)
(* Spec runs the operations of one SparseSet, SpecEq builds one and        *)
(* compares it, SpecHeap runs a set and its clone over the allocator's     *)
(* blocks, SpecOrd runs one OrdSet, SpecOrdDe one that may come out of     *)
(* deserialize, SpecSync runs threads on one SyncRef, SpecWs runs          *)
(* strip_ws_json! on a string, SpecPp writes through one PrettyPrinter.    *)
(* Each leaves the variables of the others at their initial values.        *)
(***************************************************************************)
EXTENDS Integers, Sequences, FiniteSets, TLC

\* Largest capacity a set is created with or resized to.
MaxCap == 2
\* Longest list handed to deserialize.
MaxLen == 3

\* The values of T: TMin is a value try_into::<usize>() rejects.
TMin == -1
TMax == MaxCap
TVals == TMin..TMax
\* The content of an allocated slot nothing has written yet.
Uninit == TMin - 1
Caps == 0..MaxCap

VARIABLES
    pc,        \* "none": no set exists; "live": one does; "failed": its construction
               \* panicked; "dead": the process was killed; "compared": it was
               \* compared with another collection
    set,       \* the SparseSet: [capacity, len, dense, sparse]
    op,        \* the operation that ran last
    arg,       \* its argument: a value of T or a capacity (0 when it has none)
    list,      \* the list handed to deserialize (<<>> otherwise)
    outcome,   \* how it ended: "ok", "true", "false", a panic message, "abort", "fault"
    oob,       \* it accessed a buffer at an offset outside [0, capacity)
    inserted,  \* values whose insert returned, in first-insertion order, since the
               \* most recent with_capacity / clear / resize call
    kept,      \* the same, except that a resize to the current capacity keeps them
    fresh,     \* only inserts and lookups have run since with_capacity
    rhs        \* what the right-hand side of the last == iterates over (<<>> otherwise)

vars == <<pc, set, op, arg, list, outcome, oob, inserted, kept, fresh>>

\* OrdSet<T> (src/src/collections/ord_set.rs)
VARIABLES
    ord,       \* the Vec an OrdSet wraps
    ordOp,     \* the operation of the OrdSet that ran last
    ordArg,    \* its element (0 when it has none)
    ordRet,    \* what it returned (FALSE when it returns nothing)
    members    \* the elements inserted and not removed or cleared since

\* SyncRef<T> of a debug build (src/src/sync.rs)
VARIABLES
    ids,       \* Threads: the Vec of thread ids behind the Mutex
    lock,      \* the RwLock: [readers: read guards alive, writer: a write guard is]
    at,        \* per thread, where it stands: "idle", inside read() or write() at
               \* "lock_read" / "lock_write", or inside a guard's drop at
               \* "unlock_read" / "unlock_write"
    held,      \* per thread, the guards it owns: "read", "write", "map_read", "map_write"
    sact,      \* the step taken last
    sthread,   \* the thread that took it (0 at the start)
    sret       \* how it ended: "ok" or the panic message

\* SparseSets and the blocks their buffers live in (sparse_set.rs:100-119, 246-291)
VARIABLES
    heap,      \* per block: [st: "unused", "live" or "freed", cells: its slots]
    sets,      \* a set s1 and its clone s2: [st: "none", "live" or "dropped",
               \* capacity, len, dense, sparse], the buffers as block numbers
    hwho,      \* the set the last operation ran on or made (0 at the start)
    hbad,      \* "none", or what went wrong with a block: "use_after_free", "double_free"
    hdead      \* handle_alloc_error has aborted the process

\* strip_whitespace (src/src/ws.rs)
VARIABLES
    wsInput,   \* the input of the call
    wsInp,     \* inp: what of the input is still to read
    wsOut,     \* out
    wsQuote,   \* quote: 0 for None, k for Some of the k-th pair of quotes
    wsPc,      \* "idle", inside the loop ("run"), or returned ("done")
    wsPass,    \* 1 for a call on an input, 2 for the call on its result
    wsFirst    \* what the call of pass 1 returned

\* PrettyPrinter (src/src/lib.rs)
VARIABLES
    ppRes,     \* "none" before new(), "ok", or "err" once a write returned Err
    ppPad,     \* padding
    ppNl,      \* on_newline
    ppOut,     \* what fmt, the Formatter below the printer, has received
    ppAsked,   \* the strings write_str was called with, one after the other
    ppS        \* the string of the last write_str

ordVars == <<ord, ordOp, ordArg, ordRet, members>>
wsVars == <<wsInput, wsInp, wsOut, wsQuote, wsPc, wsPass, wsFirst>>
ppVars == <<ppRes, ppPad, ppNl, ppOut, ppAsked, ppS>>
syncVars == <<ids, lock, at, held, sact, sthread, sret>>
heapVars == <<heap, sets, hwho, hbad, hdead>>

\* OrdSet::new()
OrdInit ==
    /\ ord = <<>>
    /\ ordOp = "new"
    /\ ordArg = 0
    /\ ordRet = FALSE
    /\ members = {}

\* Threads that share one SyncRef.
NThreads == 2
ThreadIds == 1..NThreads

\* SyncRef::new(value), no thread has touched it
SyncInit ==
    /\ ids = <<>>
    /\ lock = [readers |-> 0, writer |-> FALSE]
    /\ at = [t \in ThreadIds |-> "idle"]
    /\ held = [t \in ThreadIds |-> <<>>]
    /\ sact = "new"
    /\ sthread = 0
    /\ sret = "ok"

\* Blocks the allocator hands out; no number is handed out twice.
NBlocks == 6
Blocks == 1..NBlocks
\* NonNull::dangling(), the pointer of a buffer of no slots
Dangling == 0
NoSet == [st |-> "none", capacity |-> 0, len |-> 0, dense |-> Dangling, sparse |-> Dangling]

\* nothing is allocated, no set exists
HeapInit ==
    /\ heap = [b \in Blocks |-> [st |-> "unused", cells |-> <<>>]]
    /\ sets = [i \in 1..2 |-> NoSet]
    /\ hwho = 0
    /\ hbad = "none"
    /\ hdead = FALSE

\* strip_whitespace has not been called
WsInit ==
    /\ wsInput = <<>>
    /\ wsInp = <<>>
    /\ wsOut = <<>>
    /\ wsQuote = 0
    /\ wsPc = "idle"
    /\ wsPass = 1
    /\ wsFirst = <<>>

\* no PrettyPrinter exists
PpInit ==
    /\ ppRes = "none"
    /\ ppPad = <<>>
    /\ ppNl = FALSE
    /\ ppOut = <<>>
    /\ ppAsked = <<>>
    /\ ppS = <<>>

\* what the operations of a SparseSet leave alone
rest == <<rhs, ordVars, syncVars, heapVars, wsVars, ppVars>>
all == <<vars, rest>>
RestInit == rhs = <<>> /\ OrdInit /\ SyncInit /\ HeapInit /\ WsInit /\ PpInit

----------------------------------------------------------------------------
(* Conversions, sparse_set.rs:294-308 *)

\* value.try_into() succeeds: the value is not negative
ToUsizeOk(value) == value >= 0

\* T::try_from(i) succeeds: the index fits T
ToValueOk(i) == i <= TMax

----------------------------------------------------------------------------
(* Buffers, sparse_set.rs:254-291 *)

\* mem_alloc(size): size slots, none written (a dangling pointer for size 0)
mem_alloc(size) == [i \in 0..(size - 1) |-> Uninit]

\* mem_realloc(ptr, size, new_size): the common prefix is kept, the rest is new
mem_realloc(buf, size, new_size) ==
    IF size = 0
    THEN mem_alloc(new_size)
    ELSE [i \in 0..(new_size - 1) |-> IF i < size THEN buf[i] ELSE Uninit]

\* realloc is called with new size 0 (outside its contract): size > 0, new_size = 0
ReallocToZero(size, new_size) == size # 0 /\ new_size = 0

\* ptr::read(buf.offset(off)) on a buffer of cap slots; g is what a read of
\* memory nothing has written (or nothing owns) yields
ReadAt(buf, cap, off, g) ==
    IF off < cap /\ buf[off] # Uninit THEN buf[off] ELSE g

\* ptr::write(buf.offset(off), x): outside the buffer it does not land in it
WriteAt(buf, cap, off, x) ==
    IF off < cap THEN [buf EXCEPT ![off] = x] ELSE buf

\* the offset is outside the buffer
Outside(cap, off) == off >= cap

----------------------------------------------------------------------------
(* SparseSet, sparse_set.rs:29-127 *)

ConversionFailed == "conversion failed"
ValueOutOfRange == "value out of range"

with_capacity(capacity) ==
    [capacity |-> capacity,
     len      |-> 0,
     dense    |-> mem_alloc(capacity),
     sparse   |-> mem_alloc(capacity)]

\* contains without the read-back of dense: a sparse entry below len is believed
contains_no_cross_check(s, value, g) ==
    IF s.len = 0
    THEN [res |-> "false", oob |-> FALSE]
    ELSE IF ~ToUsizeOk(value)
    THEN [res |-> ConversionFailed, oob |-> FALSE]
    ELSE LET x == ReadAt(s.sparse, s.capacity, value, g)
         IN  IF ~ToUsizeOk(x)
             THEN [res |-> ConversionFailed, oob |-> Outside(s.capacity, value)]
             ELSE [res |-> IF x < s.len THEN "true" ELSE "false",
                   oob |-> Outside(s.capacity, value)]

\* contains without the len == 0 test: an empty set reads its buffers too
contains_no_len_check(s, value, g) ==
    IF ~ToUsizeOk(value)
    THEN [res |-> ConversionFailed, oob |-> FALSE]
    ELSE LET out == Outside(s.capacity, value)
             x   == ReadAt(s.sparse, s.capacity, value, g)
         IN  IF ~ToUsizeOk(x)
             THEN [res |-> ConversionFailed, oob |-> out]
             ELSE IF x < s.len
             THEN LET y == ReadAt(s.dense, s.capacity, x, g)
                  IN  IF ~ToUsizeOk(y)
                      THEN [res |-> ConversionFailed,
                            oob |-> out \/ Outside(s.capacity, x)]
                      ELSE [res |-> IF value = y THEN "true" ELSE "false",
                            oob |-> out \/ Outside(s.capacity, x)]
             ELSE [res |-> "false", oob |-> out]

\* contains(&value): res is "true", "false" or the panic message
contains(s, value, g) ==
    IF s.len = 0
    THEN [res |-> "false", oob |-> FALSE]
    ELSE IF ~ToUsizeOk(value)
    THEN [res |-> ConversionFailed, oob |-> FALSE]
    ELSE LET val == value
             out == Outside(s.capacity, val)
             x   == ReadAt(s.sparse, s.capacity, val, g)
         IN  IF ~ToUsizeOk(x)
             THEN [res |-> ConversionFailed, oob |-> out]
             ELSE IF x < s.len
             THEN LET y == ReadAt(s.dense, s.capacity, x, g)
                  IN  IF ~ToUsizeOk(y)
                      THEN [res |-> ConversionFailed,
                            oob |-> out \/ Outside(s.capacity, x)]
                      ELSE [res |-> IF val = y THEN "true" ELSE "false",
                            oob |-> out \/ Outside(s.capacity, x)]
             ELSE [res |-> "false", oob |-> out]

\* insert without the membership test: every in-range value is appended
insert_no_contains(s, value, g) ==
    IF ~ToUsizeOk(value)
    THEN [set |-> s, outcome |-> ConversionFailed, oob |-> FALSE]
    ELSE IF value >= s.capacity
    THEN [set |-> s, outcome |-> ValueOutOfRange, oob |-> FALSE]
    ELSE [set |-> [s EXCEPT !.dense = WriteAt(s.dense, s.capacity, s.len, value),
                            !.sparse = WriteAt(s.sparse, s.capacity, value, s.len),
                            !.len = s.len + 1],
          outcome |-> "ok", oob |-> Outside(s.capacity, s.len)]

\* insert with the range test off by one: val > capacity instead of val >= capacity
insert_off_by_one(s, value, g) ==
    IF ~ToUsizeOk(value)
    THEN [set |-> s, outcome |-> ConversionFailed, oob |-> FALSE]
    ELSE IF value > s.capacity
    THEN [set |-> s, outcome |-> ValueOutOfRange, oob |-> FALSE]
    ELSE LET c == contains(s, value, g)
         IN  IF c.res = ConversionFailed
             THEN [set |-> s, outcome |-> ConversionFailed, oob |-> c.oob]
             ELSE IF c.res = "true"
             THEN [set |-> s, outcome |-> "ok", oob |-> c.oob]
             ELSE [set |-> [s EXCEPT !.dense = WriteAt(s.dense, s.capacity, s.len, value),
                                     !.sparse = WriteAt(s.sparse, s.capacity, value, s.len),
                                     !.len = s.len + 1],
                   outcome |-> "ok",
                   oob |-> c.oob \/ Outside(s.capacity, s.len) \/ Outside(s.capacity, value)]

\* insert(value): the set it leaves, "ok" or the panic message
insert(s, value, g) ==
    IF ~ToUsizeOk(value)
    THEN [set |-> s, outcome |-> ConversionFailed, oob |-> FALSE]
    ELSE IF value >= s.capacity
    THEN [set |-> s, outcome |-> ValueOutOfRange, oob |-> FALSE]
    ELSE LET c == contains(s, value, g)
         IN  IF c.res = ConversionFailed
             THEN [set |-> s, outcome |-> ConversionFailed, oob |-> c.oob]
             ELSE IF c.res = "true"
             THEN [set |-> s, outcome |-> "ok", oob |-> c.oob]
             ELSE LET i == s.len
                      d == WriteAt(s.dense, s.capacity, i, value)
                      o == c.oob \/ Outside(s.capacity, i)
                  IN  IF ~ToValueOk(i)
                      THEN [set |-> [s EXCEPT !.dense = d],
                            outcome |-> ConversionFailed, oob |-> o]
                      ELSE [set |-> [s EXCEPT !.dense = d,
                                              !.sparse = WriteAt(s.sparse, s.capacity, value, i),
                                              !.len = i + 1],
                            outcome |-> "ok", oob |-> o]

\* clear that forgets to reset len
clear_keep_len(s) == s

\* clear()
clear(s) == [s EXCEPT !.len = 0]

\* resize that reallocates and keeps len
resize_keep_len(s, capacity) ==
    IF s.capacity # capacity
    THEN [capacity |-> capacity,
          len      |-> s.len,
          dense    |-> mem_realloc(s.dense, s.capacity, capacity),
          sparse   |-> mem_realloc(s.sparse, s.capacity, capacity)]
    ELSE s

\* resize(capacity), when both reallocations return
resize(s, capacity) ==
    IF s.capacity # capacity
    THEN [capacity |-> capacity,
          len      |-> 0,
          dense    |-> mem_realloc(s.dense, s.capacity, capacity),
          sparse   |-> mem_realloc(s.sparse, s.capacity, capacity)]
    ELSE s

\* clone that leaves the new dense buffer as allocated
clone_no_dense_copy(s) ==
    LET n == with_capacity(s.capacity)
    IN  [capacity |-> n.capacity,
         len      |-> s.len,
         dense    |-> n.dense,
         sparse   |-> [i \in 0..(n.capacity - 1) |-> s.sparse[i]]]

\* clone(): len slots of dense and capacity slots of sparse are copied
clone(s) ==
    LET n == with_capacity(s.capacity)
    IN  [capacity |-> n.capacity,
         len      |-> s.len,
         dense    |-> [i \in 0..(n.capacity - 1) |->
                          IF i < s.len THEN s.dense[i] ELSE n.dense[i]],
         sparse   |-> [i \in 0..(n.capacity - 1) |-> s.sparse[i]]]

\* A slice of the whole buffer: from_raw_parts(dense, capacity)
deref_whole_buffer(s) ==
    [k \in 1..s.capacity |-> s.dense[k - 1]]

\* deref(): the slice dense[0..len), as the sequence iteration yields
deref(s) ==
    [k \in 1..s.len |-> IF k - 1 < s.capacity THEN s.dense[k - 1] ELSE Uninit]

----------------------------------------------------------------------------
(* PartialEq, sparse_set.rs:136-188 *)

\* for (a, b) in self.iter().zip(other.iter()): false at the first pair that
\* differs, true when either side runs out
RECURSIVE zip_all_equal(_, _, _)
zip_all_equal(a, b, k) ==
    IF k > Len(a) \/ k > Len(b) THEN TRUE
    ELSE IF a[k] # b[k] THEN FALSE
    ELSE zip_all_equal(a, b, k + 1)

\* eq without the comparison of the lengths
eq_no_len_check(s, other) ==
    zip_all_equal(deref(s), other, 1)

\* self == other, other being what the other collection iterates over (the
\* elements of a Vec or VecDeque, the dense prefix of a SparseSet)
eq(s, other) ==
    IF Len(deref(s)) = Len(other)
    THEN zip_all_equal(deref(s), other, 1)
    ELSE FALSE

----------------------------------------------------------------------------
(* serde, sparse_set.rs:207-243 *)

serialize(s) == deref(s)

Max(a, b) == IF a >= b THEN a ELSE b

\* the fold of lines 231-234 over the elements from position k on
RECURSIVE MaxFrom(_, _, _)
MaxFrom(elems, k, max) ==
    IF k > Len(elems) THEN max ELSE MaxFrom(elems, k + 1, Max(max, elems[k]))

\* the loop of lines 237-239 from position k on: it ends at the first panic
RECURSIVE InsertFrom(_, _, _, _)
InsertFrom(s, elems, k, g) ==
    IF k > Len(elems)
    THEN [set |-> s, outcome |-> "ok", oob |-> FALSE]
    ELSE LET r == insert(s, elems[k], g)
         IN  IF r.outcome # "ok"
             THEN r
             ELSE LET t == InsertFrom(r.set, elems, k + 1, g)
                  IN  [t EXCEPT !.oob = t.oob \/ r.oob]

\* deserialize: the decoded set, or the panic that ends it
deserialize(elems, g) ==
    IF \E k \in 1..Len(elems) : ~ToUsizeOk(elems[k])
    THEN [set |-> with_capacity(0), outcome |-> ConversionFailed, oob |-> FALSE]
    ELSE LET max == MaxFrom(elems, 1, 0)
         IN  InsertFrom(with_capacity(max), elems, 1, g)

----------------------------------------------------------------------------
(* The life of one set *)

\* the lists of at most MaxLen values of T
Lists == UNION {[1..n -> TVals] : n \in 0..MaxLen}

Range(q) == {q[k] : k \in 1..Len(q)}

\* q with x behind it, unless q holds x already
Noted(q, x) == IF x \in Range(q) THEN q ELSE Append(q, x)

\* q with every repeat of an earlier element removed
RECURSIVE Dedup(_)
Dedup(q) ==
    IF q = <<>> THEN <<>>
    ELSE Noted(Dedup(SubSeq(q, 1, Len(q) - 1)), q[Len(q)])

Init ==
    /\ pc = "none"
    /\ set = with_capacity(0)
    /\ op = "none"
    /\ arg = 0
    /\ list = <<>>
    /\ outcome = "ok"
    /\ oob = FALSE
    /\ inserted = <<>>
    /\ kept = <<>>
    /\ fresh = FALSE

\* SparseSet::with_capacity(capacity); new() and default() are with_capacity(0)
New(capacity) ==
    /\ pc = "none"
    /\ pc' = "live"
    /\ set' = with_capacity(capacity)
    /\ op' = "with_capacity"
    /\ arg' = capacity
    /\ list' = <<>>
    /\ outcome' = "ok"
    /\ oob' = FALSE
    /\ inserted' = <<>>
    /\ kept' = <<>>
    /\ fresh' = TRUE

\* SparseSet::deserialize of the list elems
Decode(elems, g) ==
    /\ pc = "none"
    /\ LET r == deserialize(elems, g)
       IN  /\ pc' = IF r.outcome = "ok" THEN "live" ELSE "failed"
           /\ set' = IF r.outcome = "ok" THEN r.set ELSE set
           /\ outcome' = r.outcome
           /\ oob' = r.oob
           /\ inserted' = IF r.outcome = "ok" THEN Dedup(elems) ELSE <<>>
           /\ kept' = IF r.outcome = "ok" THEN Dedup(elems) ELSE <<>>
    /\ op' = "deserialize"
    /\ arg' = 0
    /\ list' = elems
    /\ fresh' = FALSE

\* set.insert(value)
DoInsert(value, g) ==
    /\ pc = "live"
    /\ LET r == insert(set, value, g)
       IN  /\ set' = r.set
           /\ outcome' = r.outcome
           /\ oob' = r.oob
           /\ inserted' = IF r.outcome = "ok" THEN Noted(inserted, value) ELSE inserted
           /\ kept' = IF r.outcome = "ok" THEN Noted(kept, value) ELSE kept
    /\ op' = "insert"
    /\ arg' = value
    /\ UNCHANGED <<pc, list, fresh>>

\* set.contains(&value); a read outside the buffer may also kill the process
DoContains(value, g, fault) ==
    /\ pc = "live"
    /\ LET c == contains(set, value, g)
       IN  /\ fault => c.oob
           /\ pc' = IF fault THEN "dead" ELSE pc
           /\ outcome' = IF fault THEN "fault" ELSE c.res
           /\ oob' = c.oob
    /\ op' = "contains"
    /\ arg' = value
    /\ UNCHANGED <<set, list, inserted, kept, fresh>>

\* set.clear()
DoClear ==
    /\ pc = "live"
    /\ set' = clear(set)
    /\ op' = "clear"
    /\ arg' = 0
    /\ outcome' = "ok"
    /\ oob' = FALSE
    /\ inserted' = <<>>
    /\ kept' = <<>>
    /\ fresh' = FALSE
    /\ UNCHANGED <<pc, list>>

\* set.resize(capacity); realloc to size 0 is outside the allocator's contract:
\* it returns a block, or returns null and handle_alloc_error aborts
DoResize(capacity, abort) ==
    /\ pc = "live"
    /\ abort => ReallocToZero(set.capacity, capacity)
    /\ pc' = IF abort THEN "dead" ELSE pc
    /\ set' = IF abort THEN set ELSE resize(set, capacity)
    /\ op' = "resize"
    /\ arg' = capacity
    /\ outcome' = IF abort THEN "abort" ELSE "ok"
    /\ oob' = FALSE
    /\ inserted' = IF abort THEN inserted ELSE <<>>
    /\ kept' = IF abort \/ capacity = set.capacity THEN kept ELSE <<>>
    /\ fresh' = FALSE
    /\ UNCHANGED list

\* let set = set.clone(): the program goes on with the clone
DoClone ==
    /\ pc = "live"
    /\ set' = clone(set)
    /\ op' = "clone"
    /\ arg' = 0
    /\ outcome' = "ok"
    /\ oob' = FALSE
    /\ fresh' = FALSE
    /\ UNCHANGED <<pc, list, inserted, kept>>

\* drop(set)
DoDrop ==
    /\ pc = "live"
    /\ pc' = "none"
    /\ set' = with_capacity(0)
    /\ op' = "none"
    /\ arg' = 0
    /\ list' = <<>>
    /\ outcome' = "ok"
    /\ oob' = FALSE
    /\ inserted' = <<>>
    /\ kept' = <<>>
    /\ fresh' = FALSE

Next ==
    \/ \E capacity \in Caps : New(capacity) /\ UNCHANGED rest
    \/ \E elems \in Lists, g \in TVals : Decode(elems, g) /\ UNCHANGED rest
    \/ \E value \in TVals, g \in TVals : DoInsert(value, g) /\ UNCHANGED rest
    \/ \E value \in TVals, g \in TVals, fault \in BOOLEAN :
            DoContains(value, g, fault) /\ UNCHANGED rest
    \/ DoClear /\ UNCHANGED rest
    \/ \E capacity \in Caps, abort \in BOOLEAN :
            DoResize(capacity, abort) /\ UNCHANGED rest
    \/ DoClone /\ UNCHANGED rest
    \/ DoDrop /\ UNCHANGED rest

\* Nothing exists yet.
Start == Init /\ RestInit

\* Every operation of one SparseSet, in any order.
Spec == Start /\ [][Next]_all

----------------------------------------------------------------------------
(* A SparseSet compared with another collection, sparse_set.rs:136-188 *)

\* The right-hand sides of ==: a Vec (or VecDeque) holding these elements ...
Others == UNION {[1..n -> 0..(MaxCap - 1)] : n \in 0..MaxCap}

\* ... or the SparseSet that with_capacity(capacity) and one insert per element
\* of elems build
built(capacity, elems, g) == InsertFrom(with_capacity(capacity), elems, 1, g)

\* The left-hand side is built by with_capacity, insert, clear and resize calls
\* that return.
EqNew(capacity) ==
    /\ pc = "none"
    /\ pc' = "live"
    /\ set' = with_capacity(capacity)
    /\ UNCHANGED <<op, arg, outcome, rhs>>

EqInsert(value, g) ==
    /\ pc = "live"
    /\ LET r == insert(set, value, g)
       IN  /\ r.outcome = "ok"
           /\ set' = r.set
    /\ UNCHANGED <<pc, op, arg, outcome, rhs>>

EqClear ==
    /\ pc = "live"
    /\ set' = clear(set)
    /\ UNCHANGED <<pc, op, arg, outcome, rhs>>

EqResize(capacity) ==
    /\ pc = "live"
    /\ set' = resize(set, capacity)
    /\ UNCHANGED <<pc, op, arg, outcome, rhs>>

\* set == other for a Vec / VecDeque other
DoEqVec(elems) ==
    /\ pc = "live"
    /\ pc' = "compared"
    /\ op' = "eq_vec"
    /\ arg' = 0
    /\ rhs' = elems
    /\ outcome' = IF eq(set, elems) THEN "true" ELSE "false"
    /\ UNCHANGED set

\* set == other for a SparseSet other; arg is the capacity of other
DoEqSet(capacity, elems, g) ==
    /\ pc = "live"
    /\ pc' = "compared"
    /\ LET t == built(capacity, elems, g)
       IN  /\ t.outcome = "ok"
           /\ rhs' = deref(t.set)
           /\ outcome' = IF eq(set, deref(t.set)) THEN "true" ELSE "false"
    /\ op' = "eq_set"
    /\ arg' = capacity
    /\ UNCHANGED set

EqIdle == UNCHANGED <<list, oob, inserted, kept, fresh, ordVars, syncVars, heapVars, wsVars, ppVars>>

NextEq ==
    \/ \E capacity \in Caps : EqNew(capacity) /\ EqIdle
    \/ \E value \in TVals, g \in TVals : EqInsert(value, g) /\ EqIdle
    \/ EqClear /\ EqIdle
    \/ \E capacity \in Caps : EqResize(capacity) /\ EqIdle
    \/ \E elems \in Others : DoEqVec(elems) /\ EqIdle
    \/ \E capacity \in Caps, elems \in Others, g \in TVals :
            DoEqSet(capacity, elems, g) /\ EqIdle

\* A set is built and then compared once: == borrows both sides and changes
\* neither, so the specification ends at the comparison.
SpecEq == Start /\ [][NextEq]_all

----------------------------------------------------------------------------
(* OrdSet, ord_set.rs:12-71 *)

\* Largest element handed to an OrdSet.
MaxElem == 3
Elems == 0..MaxElem

\* slice::binary_search as the standard library of the crate's time runs it: the
\* window [base, base + size) is halved until one slot is left, which is compared
\* last. ok: found at index; otherwise index is the place to insert at.
RECURSIVE binary_search_from(_, _, _, _)
binary_search_from(s, x, base, size) ==
    IF size > 1
    THEN LET half == size \div 2
             mid  == base + half
         IN  binary_search_from(s, x, IF s[mid + 1] > x THEN base ELSE mid, size - half)
    ELSE IF s[base + 1] = x
         THEN [ok |-> TRUE, index |-> base]
         ELSE [ok |-> FALSE, index |-> IF s[base + 1] < x THEN base + 1 ELSE base]

binary_search(s, x) ==
    IF Len(s) = 0
    THEN [ok |-> FALSE, index |-> 0]
    ELSE binary_search_from(s, x, 0, Len(s))

\* Vec::insert(index, elem) and Vec::remove(index), index counted from 0
vec_insert(s, index, elem) ==
    SubSeq(s, 1, index) \o <<elem>> \o SubSeq(s, index + 1, Len(s))

vec_remove(s, index) ==
    SubSeq(s, 1, index) \o SubSeq(s, index + 2, Len(s))

OrdSet_contains(s, elem) == binary_search(s, elem).ok

\* insert that appends an element the search did not find
OrdSet_insert_at_end(s, elem) ==
    LET r == binary_search(s, elem)
    IN  IF r.ok
        THEN [vec |-> [s EXCEPT ![r.index + 1] = elem], ret |-> TRUE]
        ELSE [vec |-> Append(s, elem), ret |-> FALSE]

\* insert(elem): true when an equal element was there and got replaced
OrdSet_insert(s, elem) ==
    LET r == binary_search(s, elem)
    IN  IF r.ok
        THEN [vec |-> [s EXCEPT ![r.index + 1] = elem], ret |-> TRUE]
        ELSE [vec |-> vec_insert(s, r.index, elem), ret |-> FALSE]

\* remove(&elem): true when the element was there
OrdSet_remove(s, elem) ==
    LET r == binary_search(s, elem)
    IN  IF r.ok
        THEN [vec |-> vec_remove(s, r.index), ret |-> TRUE]
        ELSE [vec |-> s, ret |-> FALSE]

OrdSet_clear(s) == <<>>

OrdInsert(elem) ==
    /\ Len(ord) <= MaxElem + 1
    /\ LET r == OrdSet_insert(ord, elem)
       IN  /\ ord' = r.vec
           /\ ordRet' = r.ret
    /\ ordOp' = "insert"
    /\ ordArg' = elem
    /\ members' = members \cup {elem}

OrdRemove(elem) ==
    /\ LET r == OrdSet_remove(ord, elem)
       IN  /\ ord' = r.vec
           /\ ordRet' = r.ret
    /\ ordOp' = "remove"
    /\ ordArg' = elem
    /\ members' = members \ {elem}

OrdClear ==
    /\ ord' = OrdSet_clear(ord)
    /\ ordOp' = "clear"
    /\ ordArg' = 0
    /\ ordRet' = FALSE
    /\ members' = {}

OrdContains(elem) ==
    /\ ordOp' = "contains"
    /\ ordArg' = elem
    /\ ordRet' = OrdSet_contains(ord, elem)
    /\ UNCHANGED <<ord, members>>

OrdIdle == UNCHANGED <<vars, rhs, syncVars, heapVars, wsVars, ppVars>>

NextOrd ==
    \/ \E elem \in Elems : OrdInsert(elem) /\ OrdIdle
    \/ \E elem \in Elems : OrdRemove(elem) /\ OrdIdle
    \/ OrdClear /\ OrdIdle
    \/ \E elem \in Elems : OrdContains(elem) /\ OrdIdle

\* Every operation of one OrdSet, in any order, from new().
SpecOrd == Start /\ [][NextOrd]_all

----------------------------------------------------------------------------
(* serde for OrdSet, ord_set.rs:101-135 *)

\* The lists a deserializer hands over; elements may repeat.
OrdLists == UNION {[1..n -> Elems] : n \in 0..MaxLen}

\* elems.sort(): a stable sort, every element kept; x goes behind the elements
\* that are not larger
sorted_insert(s, x) ==
    LET n == Cardinality({k \in 1..Len(s) : s[k] <= x})
    IN  SubSeq(s, 1, n) \o <<x>> \o SubSeq(s, n + 1, Len(s))

RECURSIVE sort(_)
sort(elems) ==
    IF elems = <<>> THEN <<>>
    ELSE sorted_insert(sort(SubSeq(elems, 1, Len(elems) - 1)), elems[Len(elems)])

\* OrdSet::deserialize of the list elems: the Vec, sorted
OrdSet_deserialize(elems) == sort(elems)

\* let set = OrdSet::deserialize(..)
OrdDecode(elems) ==
    /\ ord' = OrdSet_deserialize(elems)
    /\ ordOp' = "deserialize"
    /\ ordArg' = 0
    /\ ordRet' = FALSE
    /\ members' = {elems[k] : k \in 1..Len(elems)}

NextOrdDe ==
    \/ \E elems \in OrdLists : OrdDecode(elems) /\ OrdIdle
    \/ \E elem \in Elems : OrdInsert(elem) /\ OrdIdle
    \/ \E elem \in Elems : OrdRemove(elem) /\ OrdIdle
    \/ OrdClear /\ OrdIdle
    \/ \E elem \in Elems : OrdContains(elem) /\ OrdIdle

\* An OrdSet that may also come out of deserialize, and its operations.
SpecOrdDe == Start /\ [][NextOrdDe]_all

----------------------------------------------------------------------------
(* SyncRef with debug assertions, sync.rs:28-211 *)

DEADLOCK_MSG == "deadlock detected, lock already acquired in the current thread"

\* check_current_thread that pushes the id without looking for it
check_current_thread_no_check(tids, id) ==
    [panic |-> FALSE, ids |-> Append(tids, id)]

\* Threads::check_current_thread, under the Mutex: panics when the id is in the
\* list, pushes it otherwise
check_current_thread(tids, id) ==
    IF \E k \in 1..Len(tids) : tids[k] = id
    THEN [panic |-> TRUE, ids |-> tids]
    ELSE [panic |-> FALSE, ids |-> Append(tids, id)]

\* remove_current_thread that leaves the list as it is
remove_current_thread_keep(tids, id) == tids

\* Threads::remove_current_thread, under the Mutex: Vec::remove_item takes the
\* first occurrence out
remove_current_thread(tids, id) ==
    IF \E k \in 1..Len(tids) : tids[k] = id
    THEN LET k == CHOOSE i \in 1..Len(tids) :
                      tids[i] = id /\ \A j \in 1..(i - 1) : tids[j] # id
         IN  SubSeq(tids, 1, k - 1) \o SubSeq(tids, k + 1, Len(tids))
    ELSE tids

Without(q, k) == SubSeq(q, 1, k - 1) \o SubSeq(q, k + 1, Len(q))

\* read() / write() up to the lock: the check panics or notes the thread, which
\* then stands at lock.read() / lock.write()
SyncCall(t, kind) ==
    /\ at[t] = "idle"
    /\ LET r == check_current_thread(ids, t)
       IN  /\ ids' = r.ids
           /\ sret' = IF r.panic THEN DEADLOCK_MSG ELSE "ok"
           /\ at' = IF r.panic THEN at
                    ELSE [at EXCEPT ![t] = IF kind = "read" THEN "lock_read"
                                                            ELSE "lock_write"]
    /\ sact' = kind
    /\ sthread' = t
    /\ UNCHANGED <<lock, held>>

\* lock.read() returns once no writer holds the lock; the guard is built
SyncLockRead(t) ==
    /\ at[t] = "lock_read"
    /\ ~lock.writer
    /\ lock' = [lock EXCEPT !.readers = @ + 1]
    /\ held' = [held EXCEPT ![t] = Append(@, "read")]
    /\ at' = [at EXCEPT ![t] = "idle"]
    /\ sact' = "lock_read"
    /\ sthread' = t
    /\ sret' = "ok"
    /\ UNCHANGED ids

\* lock.write() returns once nobody holds the lock; the guard is built
SyncLockWrite(t) ==
    /\ at[t] = "lock_write"
    /\ ~lock.writer
    /\ lock.readers = 0
    /\ lock' = [lock EXCEPT !.writer = TRUE]
    /\ held' = [held EXCEPT ![t] = Append(@, "write")]
    /\ at' = [at EXCEPT ![t] = "idle"]
    /\ sact' = "lock_write"
    /\ sthread' = t
    /\ sret' = "ok"
    /\ UNCHANGED ids

\* SyncRefReadGuard::map / SyncRefWriteGuard::map: both fields move into the
\* mapped guard
SyncMap(t, k) ==
    /\ at[t] = "idle"
    /\ k \in 1..Len(held[t])
    /\ held[t][k] \in {"read", "write"}
    /\ held' = [held EXCEPT ![t][k] = IF @ = "read" THEN "map_read" ELSE "map_write"]
    /\ sact' = "map"
    /\ sthread' = t
    /\ sret' = "ok"
    /\ UNCHANGED <<ids, lock, at>>

\* A guard is dropped. Its fields go in declaration order: threads first, which
\* takes the id off the list; the lock guard is still alive
SyncDropThreads(t, k) ==
    /\ at[t] = "idle"
    /\ k \in 1..Len(held[t])
    /\ ids' = remove_current_thread(ids, t)
    /\ at' = [at EXCEPT ![t] = IF held[t][k] \in {"read", "map_read"}
                               THEN "unlock_read" ELSE "unlock_write"]
    /\ held' = [held EXCEPT ![t] = Without(@, k)]
    /\ sact' = "drop"
    /\ sthread' = t
    /\ sret' = "ok"
    /\ UNCHANGED lock

\* ... then the lock guard, which releases the RwLock
SyncUnlock(t) ==
    /\ at[t] \in {"unlock_read", "unlock_write"}
    /\ lock' = IF at[t] = "unlock_read"
               THEN [lock EXCEPT !.readers = @ - 1]
               ELSE [lock EXCEPT !.writer = FALSE]
    /\ at' = [at EXCEPT ![t] = "idle"]
    /\ sact' = "unlock"
    /\ sthread' = t
    /\ sret' = "ok"
    /\ UNCHANGED <<ids, held>>

SyncIdle == UNCHANGED <<vars, rhs, ordVars, heapVars, wsVars, ppVars>>

NextSync ==
    \/ \E t \in ThreadIds, kind \in {"read", "write"} : SyncCall(t, kind) /\ SyncIdle
    \/ \E t \in ThreadIds : SyncLockRead(t) /\ SyncIdle
    \/ \E t \in ThreadIds : SyncLockWrite(t) /\ SyncIdle
    \/ \E t \in ThreadIds : \E k \in DOMAIN held[t] : SyncMap(t, k) /\ SyncIdle
    \/ \E t \in ThreadIds : \E k \in DOMAIN held[t] : SyncDropThreads(t, k) /\ SyncIdle
    \/ \E t \in ThreadIds : SyncUnlock(t) /\ SyncIdle

\* Threads calling read() and write() on one SyncRef, mapping and dropping their
\* guards, in any interleaving.
SpecSync == Start /\ [][NextSync]_all

----------------------------------------------------------------------------
(* Buffers on the heap: clone, drop and the allocator calls,
   sparse_set.rs:100-119, 246-291 *)

\* Largest capacity of the two sets.
MaxCapH == 1
HCaps == 0..MaxCapH

Unused(h) == {b \in Blocks : h[b].st = "unused"}
Fresh(h) == CHOOSE b \in Unused(h) : \A c \in Unused(h) : b <= c

\* mem_alloc on the heap h: nothing for size 0, else a fresh block of size slots
heap_mem_alloc(h, size) ==
    IF size = 0
    THEN [heap |-> h, ptr |-> Dangling, bad |-> "none"]
    ELSE [heap |-> [h EXCEPT ![Fresh(h)] = [st |-> "live", cells |-> mem_alloc(size)]],
          ptr  |-> Fresh(h),
          bad  |-> "none"]

\* mem_realloc on the heap h, when realloc returns a block: the same one resized,
\* or (moved) a fresh one with the old one released. For new_size 0 the block it
\* returns has no slots.
heap_mem_realloc(h, ptr, size, new_size, moved) ==
    IF size = 0
    THEN heap_mem_alloc(h, new_size)
    ELSE IF h[ptr].st # "live"
    THEN [heap |-> h, ptr |-> ptr, bad |-> "use_after_free"]
    ELSE LET cells == mem_realloc(h[ptr].cells, size, new_size)
         IN  IF moved
             THEN [heap |-> [h EXCEPT ![Fresh(h)] = [st |-> "live", cells |-> cells],
                                      ![ptr] = [st |-> "freed", cells |-> <<>>]],
                   ptr  |-> Fresh(h),
                   bad  |-> "none"]
             ELSE [heap |-> [h EXCEPT ![ptr].cells = cells], ptr |-> ptr, bad |-> "none"]

\* mem_dealloc on the heap h: nothing for size 0, else the block is released
heap_mem_dealloc(h, ptr, size) ==
    IF size > 0
    THEN IF h[ptr].st = "live"
         THEN [heap |-> [h EXCEPT ![ptr] = [st |-> "freed", cells |-> <<>>]], bad |-> "none"]
         ELSE [heap |-> h, bad |-> "double_free"]
    ELSE [heap |-> h, bad |-> "none"]

\* the first thing that went wrong
Worst(a, b) == IF a # "none" THEN a ELSE b

\* What the capacity slots behind a pointer hold; a block that was released
\* holds whatever
Buf(h, ptr, capacity) ==
    [i \in 0..(capacity - 1) |->
        IF ptr \in Blocks /\ h[ptr].st = "live" /\ i \in DOMAIN h[ptr].cells
        THEN h[ptr].cells[i] ELSE Uninit]

\* The set s of the heap h with its buffers' contents in place of the pointers
View(h, s) ==
    [capacity |-> s.capacity,
     len      |-> s.len,
     dense    |-> Buf(h, s.dense, s.capacity),
     sparse   |-> Buf(h, s.sparse, s.capacity)]

\* A buffer of the set is a block that is not live
Stale(h, s) ==
    /\ s.capacity > 0
    /\ \/ s.dense \notin Blocks
       \/ s.sparse \notin Blocks
       \/ h[s.dense].st # "live"
       \/ h[s.sparse].st # "live"

\* The heap once the buffers of s hold what those of v do
Store(h, s, v) ==
    [b \in Blocks |->
        IF h[b].st = "live" /\ s.capacity > 0 /\ b = s.sparse
        THEN [h[b] EXCEPT !.cells = v.sparse]
        ELSE IF h[b].st = "live" /\ s.capacity > 0 /\ b = s.dense
        THEN [h[b] EXCEPT !.cells = v.dense]
        ELSE h[b]]

\* SparseSet::with_capacity on the heap h
heap_with_capacity(h, capacity) ==
    LET d == heap_mem_alloc(h, capacity)
        p == heap_mem_alloc(d.heap, capacity)
    IN  [heap |-> p.heap,
         set  |-> [st |-> "live", capacity |-> capacity, len |-> 0,
                   dense |-> d.ptr, sparse |-> p.ptr]]

\* clone that copies the two pointers
heap_clone_shared(h, s) ==
    [heap |-> h, set |-> s]

\* clone() on the heap h: a new set of the same capacity, its buffers filled from
\* those of s
heap_clone(h, s) ==
    LET n == heap_with_capacity(h, s.capacity)
        v == clone(View(h, s))
    IN  [heap |-> Store(n.heap, n.set, v),
         set  |-> [n.set EXCEPT !.len = v.len]]

\* drop() on the heap h: dense is released, then sparse
heap_drop(h, s) ==
    LET d == heap_mem_dealloc(h, s.dense, s.capacity)
        p == heap_mem_dealloc(d.heap, s.sparse, s.capacity)
    IN  [heap |-> p.heap, bad |-> Worst(d.bad, p.bad)]

\* Block numbers stand for addresses and carry no meaning. After every step the
\* blocks are renumbered in the order in which s1.dense, s1.sparse, s2.dense and
\* s2.sparse point at them, the live blocks nothing points at behind them; a
\* released block nothing points at is forgotten.
Ptrs(ss) == <<ss[1].dense, ss[1].sparse, ss[2].dense, ss[2].sparse>>
Referenced(ss) == {Ptrs(ss)[k] : k \in 1..4} \ {Dangling}
First(ss, b) == CHOOSE k \in 1..4 : Ptrs(ss)[k] = b /\ \A j \in 1..(k - 1) : Ptrs(ss)[j] # b
Kept(h, ss) == Referenced(ss) \cup {b \in Blocks : h[b].st = "live"}
Number(h, ss, b) ==
    IF b \in Referenced(ss)
    THEN Cardinality({c \in Referenced(ss) : First(ss, c) <= First(ss, b)})
    ELSE Cardinality(Referenced(ss))
         + Cardinality({c \in Kept(h, ss) \ Referenced(ss) : c <= b})
Renumbered(h, ss, num) ==
    [heap |-> [n \in Blocks |->
                  IF \E b \in DOMAIN num : num[b] = n
                  THEN h[CHOOSE b \in DOMAIN num : num[b] = n]
                  ELSE [st |-> "unused", cells |-> <<>>]],
     sets |-> [i \in 1..2 |->
                  [ss[i] EXCEPT !.dense = IF @ = Dangling THEN Dangling ELSE num[@],
                                !.sparse = IF @ = Dangling THEN Dangling ELSE num[@]]]]

\* the step ends with the heap h and the sets ss
Arrive(h, ss) ==
    \E hv \in {h}, sv \in {ss} :
        \E num \in {[b \in Kept(hv, sv) |-> Number(hv, sv, b)]} :
            \E r \in {Renumbered(hv, sv, num)} :
                /\ heap' = r.heap
                /\ sets' = r.sets

\* let s1 = SparseSet::with_capacity(capacity)
HNew(capacity) ==
    /\ ~hdead
    /\ sets[1].st = "none"
    /\ Cardinality(Unused(heap)) >= 2
    /\ \E n \in {heap_with_capacity(heap, capacity)} :
           Arrive(n.heap, [sets EXCEPT ![1] = n.set])
    /\ hwho' = 1
    /\ UNCHANGED <<hbad, hdead>>

\* let s2 = s1.clone()
HClone ==
    /\ ~hdead
    /\ sets[1].st = "live"
    /\ sets[2].st = "none"
    /\ Cardinality(Unused(heap)) >= 2
    /\ \E n \in {heap_clone(heap, sets[1])} :
           Arrive(n.heap, [sets EXCEPT ![2] = n.set])
    /\ hwho' = 2
    /\ hbad' = Worst(hbad, IF Stale(heap, sets[1]) THEN "use_after_free" ELSE "none")
    /\ UNCHANGED hdead

\* sets[i].insert(value), whether it returns or panics
HInsert(i, value, g) ==
    /\ ~hdead
    /\ sets[i].st = "live"
    /\ \E v \in {View(heap, sets[i])} :
           \E r \in {insert(v, value, g)} :
           \E h \in {Store(heap, sets[i], r.set)} :
               Arrive(h, [sets EXCEPT ![i].len = r.set.len])
    /\ hwho' = i
    /\ hbad' = Worst(hbad, IF Stale(heap, sets[i]) /\ value \in 0..(sets[i].capacity - 1)
                           THEN "use_after_free" ELSE "none")
    /\ UNCHANGED hdead

\* sets[i].clear()
HClear(i) ==
    /\ ~hdead
    /\ sets[i].st = "live"
    /\ Arrive(heap, [sets EXCEPT ![i].len = clear(View(heap, sets[i])).len])
    /\ hwho' = i
    /\ UNCHANGED <<hbad, hdead>>

\* sets[i].resize(capacity): each realloc resizes its block in place or moves it;
\* a realloc to size 0 (outside the allocator's contract) returns a block of no
\* slots, or null, and then handle_alloc_error aborts
HResize(i, capacity, movedDense, movedSparse, abort) ==
    /\ ~hdead
    /\ sets[i].st = "live"
    /\ abort => ReallocToZero(sets[i].capacity, capacity)
    /\ Cardinality(Unused(heap)) >= 2
    /\ IF sets[i].capacity = capacity \/ abort
       THEN UNCHANGED <<heap, sets, hbad>>
       ELSE \E s \in {sets[i]} :
            \E d \in {heap_mem_realloc(heap, s.dense, s.capacity, capacity, movedDense)} :
            \E p \in {heap_mem_realloc(d.heap, s.sparse, s.capacity, capacity, movedSparse)} :
                /\ Arrive(p.heap, [sets EXCEPT ![i] = [st |-> "live",
                                                      capacity |-> capacity,
                                                      len |-> 0, dense |-> d.ptr,
                                                      sparse |-> p.ptr]])
                /\ hbad' = Worst(hbad, Worst(d.bad, p.bad))
    /\ hdead' = abort
    /\ hwho' = i

\* drop(sets[i])
HDrop(i) ==
    /\ ~hdead
    /\ sets[i].st = "live"
    /\ \E r \in {heap_drop(heap, sets[i])} :
           /\ Arrive(r.heap, [sets EXCEPT ![i] = [NoSet EXCEPT !.st = "dropped"]])
           /\ hbad' = Worst(hbad, r.bad)
    /\ hwho' = i
    /\ UNCHANGED hdead

HeapIdle == UNCHANGED <<vars, rhs, ordVars, syncVars, wsVars, ppVars>>

NextHeap ==
    \/ \E capacity \in HCaps : HNew(capacity) /\ HeapIdle
    \/ HClone /\ HeapIdle
    \/ \E i \in 1..2, value \in TMin..MaxCapH, g \in TVals : HInsert(i, value, g) /\ HeapIdle
    \/ \E i \in 1..2 : HClear(i) /\ HeapIdle
    \/ \E i \in 1..2, capacity \in HCaps, movedDense \in BOOLEAN,
          movedSparse \in BOOLEAN, abort \in BOOLEAN :
            HResize(i, capacity, movedDense, movedSparse, abort) /\ HeapIdle
    \/ \E i \in 1..2 : HDrop(i) /\ HeapIdle

\* A set, its clone, and every operation on either, with the allocator's blocks.
SpecHeap == Start /\ [][NextHeap]_all

----------------------------------------------------------------------------
(* strip_whitespace and strip_ws_json!, ws.rs:1-66 *)

\* Longest input handed to strip_ws_json!.
MaxInput == 5

\* A &str is the sequence of its chars: a whitespace char, a letter, the double
\* quote and the backslash.
Chars == {" ", "a", "\"", "\\"}
Inputs == UNION {[1..n -> Chars] : n \in 0..MaxInput}

\* char::is_whitespace
is_whitespace(c) == c = " "

\* str::starts_with(pat) and the slice of s from the byte after its first n chars
starts_with(s, pat) == Len(pat) <= Len(s) /\ SubSeq(s, 1, Len(pat)) = pat
SliceFrom(s, n) == SubSeq(s, n + 1, Len(s))

\* the arguments strip_ws_json! passes: the pair of quotes ("\"", "\"") and the
\* ignored sequences "\\\\" (two backslashes) and "\\\"" (backslash, quote)
JsonQuotes == << << <<"\"">>, <<"\"">> >> >>
\* the ignored sequences without the escaped quote
JsonIgnored_no_escaped_quote == << <<"\\", "\\">> >>
JsonIgnored == << <<"\\", "\\">>, <<"\\", "\"">> >>

\* the first pattern of the list that s starts with (0 when none does): the for
\* loops break at the first hit; open = 1 picks q.0 of a pair, 0 the pattern itself
FirstHit(s, pats, open) ==
    LET hits == {k \in 1..Len(pats) :
                    starts_with(s, IF open = 1 THEN pats[k][1] ELSE pats[k])}
    IN  IF hits = {} THEN 0 ELSE CHOOSE k \in hits : \A j \in hits : k <= j

\* strip_whitespace(input, quotes, ignored) up to the loop
WsBegin(input, pass) ==
    /\ wsInput' = IF pass = 1 THEN input ELSE wsInput
    /\ wsInp' = input
    /\ wsOut' = <<>>
    /\ wsQuote' = 0
    /\ wsPc' = "run"
    /\ wsPass' = pass
    /\ wsFirst' = IF pass = 1 THEN <<>> ELSE wsOut

\* strip_ws_json!(input); the function keeps nothing from one call to the next,
\* so one call on each input, and one on its result, show all it does
WsCall(input) ==
    /\ wsPc = "idle"
    /\ WsBegin(input, 1)

\* strip_ws_json! of what the call before returned
WsCallOnResult ==
    /\ wsPc = "done"
    /\ wsPass = 1
    /\ WsBegin(wsOut, 2)

\* One turn of the loop, or the break that returns out.
WsLoop ==
    /\ wsPc = "run"
    /\ IF wsQuote # 0
       THEN LET i == FirstHit(wsInp, JsonIgnored, 0)
                close == JsonQuotes[wsQuote][2]
            IN  IF i # 0
                THEN /\ wsOut' = wsOut \o JsonIgnored[i]
                     /\ wsInp' = SliceFrom(wsInp, Len(JsonIgnored[i]))
                     /\ UNCHANGED <<wsQuote, wsPc>>
                ELSE IF starts_with(wsInp, close)
                THEN /\ wsOut' = wsOut \o close
                     /\ wsInp' = SliceFrom(wsInp, Len(close))
                     /\ wsQuote' = 0
                     /\ UNCHANGED wsPc
                ELSE IF wsInp # <<>>
                THEN /\ wsOut' = Append(wsOut, Head(wsInp))
                     /\ wsInp' = Tail(wsInp)
                     /\ UNCHANGED <<wsQuote, wsPc>>
                ELSE /\ wsPc' = "done"
                     /\ UNCHANGED <<wsOut, wsInp, wsQuote>>
       ELSE LET q == FirstHit(wsInp, JsonQuotes, 1)
            IN  IF q # 0
                THEN /\ wsOut' = wsOut \o JsonQuotes[q][1]
                     /\ wsInp' = SliceFrom(wsInp, Len(JsonQuotes[q][1]))
                     /\ wsQuote' = q
                     /\ UNCHANGED wsPc
                ELSE IF wsInp # <<>>
                THEN /\ wsOut' = IF is_whitespace(Head(wsInp))
                                 THEN wsOut ELSE Append(wsOut, Head(wsInp))
                     /\ wsInp' = Tail(wsInp)
                     /\ UNCHANGED <<wsQuote, wsPc>>
                ELSE /\ wsPc' = "done"
                     /\ UNCHANGED <<wsOut, wsInp, wsQuote>>
    /\ UNCHANGED <<wsInput, wsPass, wsFirst>>

WsIdle == UNCHANGED <<vars, rhs, ordVars, syncVars, heapVars, ppVars>>

NextWs ==
    \/ wsPc = "idle" /\ \E input \in Inputs : WsCall(input) /\ WsIdle
    \/ WsCallOnResult /\ WsIdle
    \/ WsLoop /\ WsIdle

\* strip_ws_json! called on any input and then on its own result. The function
\* runs on the caller's thread, which keeps running: a turn of the loop that
\* can be taken is taken.
SpecWs == Start /\ [][NextWs]_all /\ WF_all(WsLoop /\ WsIdle)

----------------------------------------------------------------------------
(* PrettyPrinter, lib.rs:23-80 *)

\* Longest string handed to one write_str.
MaxStr == 2
\* Most chars handed to the write_str calls of one printer.
MaxText == 4

\* the chars of the strings written: a letter and the newline
TextChars == {"a", "\n"}
Strs == UNION {[1..n -> TextChars] : n \in 0..MaxStr}
\* the padding a printer is made with
Paddings == {<<">">>, <<">", ">">>}
\* how many calls of fmt.write_str succeed before the Formatter returns Err; a
\* write_str of the printer makes at most two per char of its string
Budgets == 0..(2 * MaxStr)

\* s.find(c) + 1: the place of the first c in s, 0 for None
find(s, c) ==
    IF \E k \in 1..Len(s) : s[k] = c
    THEN CHOOSE k \in 1..Len(s) : s[k] = c /\ \A j \in 1..(k - 1) : s[j] # c
    ELSE 0

\* write_str whose None arm leaves on_newline as it was
RECURSIVE write_str_keep_on_newline(_, _, _, _, _)
write_str_keep_on_newline(padding, out, on_newline, s, budget) ==
    IF s = <<>>
    THEN [out |-> out, on_newline |-> on_newline, res |-> "ok"]
    ELSE IF on_newline /\ budget = 0
    THEN [out |-> out, on_newline |-> on_newline, res |-> "err"]
    ELSE LET padded == IF on_newline THEN out \o padding ELSE out
             left   == IF on_newline THEN budget - 1 ELSE budget
             pos    == find(s, "\n")
             nl     == IF pos # 0 THEN TRUE ELSE on_newline
             split  == IF pos # 0 THEN pos ELSE Len(s)
         IN  IF left = 0
             THEN [out |-> padded, on_newline |-> nl, res |-> "err"]
             ELSE write_str_keep_on_newline(padding, padded \o SubSeq(s, 1, split), nl,
                                            SliceFrom(s, split), left - 1)

\* PrettyPrinter::write_str(s) on a printer with this padding and on_newline,
\* whose Formatter has received out and accepts budget more writes: the while
\* loop, a `?` returning Err at the write the Formatter refuses
RECURSIVE write_str(_, _, _, _, _)
write_str(padding, out, on_newline, s, budget) ==
    IF s = <<>>
    THEN [out |-> out, on_newline |-> on_newline, res |-> "ok"]
    ELSE IF on_newline /\ budget = 0
    THEN [out |-> out, on_newline |-> on_newline, res |-> "err"]
    ELSE LET padded == IF on_newline THEN out \o padding ELSE out
             left   == IF on_newline THEN budget - 1 ELSE budget
             pos    == find(s, "\n")
             nl     == pos # 0
             split  == IF pos # 0 THEN pos ELSE Len(s)
         IN  IF left = 0
             THEN [out |-> padded, on_newline |-> nl, res |-> "err"]
             ELSE write_str(padding, padded \o SubSeq(s, 1, split), nl,
                            SliceFrom(s, split), left - 1)

\* PrettyPrinter::new(fmt, padding)
PpNew(padding) ==
    /\ ppRes = "none"
    /\ ppRes' = "ok"
    /\ ppPad' = padding
    /\ ppNl' = FALSE
    /\ UNCHANGED <<ppOut, ppAsked, ppS>>

\* write_str(s); after an Err the caller gives the error back to its own
\* caller and writes no more
PpWriteStr(s, budget) ==
    /\ ppRes = "ok"
    /\ Len(ppAsked) + Len(s) <= MaxText
    /\ LET r == write_str(ppPad, ppOut, ppNl, s, budget)
       IN  /\ ppOut' = r.out
           /\ ppNl' = r.on_newline
           /\ ppRes' = r.res
    /\ ppAsked' = ppAsked \o s
    /\ ppS' = s
    /\ UNCHANGED ppPad

PpIdle == UNCHANGED <<vars, rhs, ordVars, syncVars, heapVars, wsVars>>

NextPp ==
    \/ \E padding \in Paddings : PpNew(padding) /\ PpIdle
    \/ \E s \in Strs, budget \in Budgets : PpWriteStr(s, budget) /\ PpIdle

\* One PrettyPrinter and the write_str calls made on it.
SpecPp == Start /\ [][NextPp]_all

----------------------------------------------------------------------------
(* Claims *)

\* the values whose index is below the capacity
InRange(s) == 0..(s.capacity - 1)

\* the values of T that convert to usize
Convertible == {x \in TVals : ToUsizeOk(x)}

\* C1 (as stated): for every v with index < capacity, contains(v) is true iff v
\* was inserted successfully after the most recent creation, clear or resize,
\* whatever convertible value a never-written slot yields.
C1_MembershipSinceAnyResize ==
    pc = "live" =>
        \A v \in InRange(set), g \in Convertible :
            contains(set, v, g).res = IF v \in Range(inserted) THEN "true" ELSE "false"

\* C1 (amended): for every v with index < capacity, contains(v) is true iff v was
\* inserted successfully after the most recent creation, clear or resize to a
\* different capacity, whatever convertible value a never-written slot yields.
C1_Membership ==
    pc = "live" =>
        \A v \in InRange(set), g \in Convertible :
            contains(set, v, g).res = IF v \in Range(kept) THEN "true" ELSE "false"

\* C1 witness: a non-member's stale sparse slot points into the valid dense prefix
C1_StaleSlotInPrefix ==
    /\ pc = "live"
    /\ \E v \in InRange(set) :
        /\ v \notin Range(kept)
        /\ set.sparse[v] # Uninit
        /\ set.sparse[v] < set.len

\* C2: the indices of dense[0..len) lie in [0, capacity) and are pairwise distinct.
C2_DensePrefixDistinct ==
    \A i \in 0..(set.len - 1) :
        /\ i < set.capacity
        /\ set.dense[i] \in InRange(set)
        /\ \A j \in 0..(i - 1) : set.dense[j] # set.dense[i]

\* C2 witness: a full set of MaxCap values that has been cloned
C2_FullAfterClone ==
    /\ pc = "live"
    /\ op = "clone"
    /\ set.len = MaxCap

\* C3: len <= capacity in every reachable state.
C3_LenWithinCapacity == set.len <= set.capacity

\* C3 witness: a set shrunk by resize whose buffers still hold what earlier inserts wrote
C3_ShrunkWithStaleContent ==
    /\ pc = "live"
    /\ op = "resize"
    /\ set.capacity = 1
    /\ set.len = 0
    /\ set.dense[0] = 1

\* C4: after any sequence of inserts into a freshly created set, len() is the
\* number of distinct values whose insert succeeded.
C4_LenCountsDistinct ==
    (pc = "live" /\ fresh) => set.len = Cardinality(Range(inserted))

\* C4 witness: a fresh set on which a value already present was inserted again
C4_ReinsertedOnFresh ==
    /\ pc = "live"
    /\ fresh
    /\ op = "insert"
    /\ outcome = "ok"
    /\ set.len = 2
    /\ set.dense[1] # arg

\* C5: iteration yields each distinct inserted value once, in first-insertion
\* order, and an insert (a duplicate one included) moves no element already present.
C5_IterationOrder ==
    /\ [](pc = "live" => deref(set) = kept)
    /\ [][(pc = "live" /\ op' = "insert") =>
            /\ Len(deref(set')) >= Len(deref(set))
            /\ \A k \in 1..Len(deref(set)) : deref(set')[k] = deref(set)[k]]_vars

\* C5 witness: a duplicate insert of the first element of a two-element iteration
C5_DuplicateOfFirst ==
    /\ pc = "live"
    /\ op = "insert"
    /\ outcome = "ok"
    /\ Len(deref(set)) = 2
    /\ deref(set)[1] = arg

\* C6: insert of a value whose index is >= capacity panics with "value out of
\* range" and leaves len, capacity, the dense prefix and every membership unchanged.
C6_InsertOutOfRange ==
    [][(pc = "live" /\ op' = "insert" /\ arg' >= set.capacity) =>
        /\ outcome' = ValueOutOfRange
        /\ set'.len = set.len
        /\ set'.capacity = set.capacity
        /\ deref(set') = deref(set)
        /\ \A v \in TVals, g \in TVals :
            contains(set', v, g).res = contains(set, v, g).res]_vars

\* C6 witness: a full set of two or more values rejected the value capacity
C6_FullSetRejects ==
    /\ pc = "live"
    /\ op = "insert"
    /\ outcome = ValueOutOfRange
    /\ arg = set.capacity
    /\ set.len = set.capacity
    /\ set.len >= 2

\* C7: no operation reads or writes dense or sparse at an offset outside
\* [0, capacity).
C7_NoAccessOutsideBuffer == ~oob

\* C8 (as stated): resize(new_capacity) always leaves capacity() == new_capacity
\* and len() == 0, with nothing contained, also for new_capacity == capacity.
C8_ResizeAlwaysResets ==
    (pc = "live" /\ op = "resize") =>
        /\ set.capacity = arg
        /\ set.len = 0
        /\ \A v \in TVals, g \in TVals : contains(set, v, g).res = "false"

\* C8 (amended): resize(new_capacity) to a capacity other than the current one
\* leaves capacity() == new_capacity and len() == 0, with nothing contained;
\* resize to the current capacity leaves the set as it was.
C8_Resize ==
    [][(pc = "live" /\ op' = "resize" /\ pc' = "live") =>
        IF arg' # set.capacity
        THEN /\ set'.capacity = arg'
             /\ set'.len = 0
             /\ \A v \in TVals, g \in TVals : contains(set', v, g).res = "false"
        ELSE set' = set]_vars

\* C8 witness: a grown set is empty although its buffers hold an earlier insert
C8_GrownAndEmptied ==
    /\ pc = "live"
    /\ op = "resize"
    /\ arg = 2
    /\ set.capacity = 2
    /\ set.len = 0
    /\ set.dense[0] = 0
    /\ set.sparse[0] = 0
    /\ set.dense[1] = Uninit

\* C9: decoding a list builds a set of capacity max + 1 (0 for the empty list)
\* and inserts every listed value in order, so decode(encode(S)) succeeds and
\* iterates as S does.
C9_DecodeRoundTrip ==
    /\ (op = "deserialize" /\ Range(list) \subseteq Convertible) =>
        /\ outcome = "ok"
        /\ set.capacity = IF list = <<>> THEN 0 ELSE MaxFrom(list, 1, 0) + 1
        /\ deref(set) = Dedup(list)
    /\ pc = "live" =>
        \A g \in TVals :
            LET r == deserialize(serialize(set), g)
            IN  r.outcome = "ok" /\ deref(r.set) = deref(set)

\* C10: decoding a list with duplicate values succeeds, and the decoded
\* iteration is the list with every later repeat removed.
C10_DuplicatesCollapse ==
    (op = "deserialize" /\ Range(list) \subseteq Convertible /\ Dedup(list) # list) =>
        /\ outcome = "ok"
        /\ deref(set) = Dedup(list)

\* C13: clear() sets len to 0 and keeps capacity and both buffers as they are;
\* afterwards contains(v) is false for every v, and a value whose insert
\* returned is found by contains at the dense position its sparse slot names.
C13_Clear ==
    /\ [][(pc = "live" /\ op' = "clear") =>
            /\ set'.len = 0
            /\ set'.capacity = set.capacity
            /\ set'.dense = set.dense
            /\ set'.sparse = set.sparse
            /\ \A v \in TVals, g \in TVals : contains(set', v, g).res = "false"]_vars
    /\ []((pc = "live" /\ op = "insert" /\ outcome = "ok") =>
            /\ \A g \in TVals : contains(set, arg, g).res = "true"
            /\ set.sparse[arg] < set.len
            /\ set.dense[set.sparse[arg]] = arg)

\* C13 witness: after a clear, a value that sat at position 1 was inserted again
\* and sits at position 0; its old copy is still in the buffer
C13_ReinsertedAfterClear ==
    /\ pc = "live"
    /\ op = "insert"
    /\ outcome = "ok"
    /\ set.len = 1
    /\ set.dense[0] = arg
    /\ set.capacity = 2
    /\ set.dense[1] = arg
    /\ set.sparse[arg] = 0

\* C14: insert(v) of a value already contained returns and changes nothing: len,
\* capacity, both buffers (so the iteration and every membership) stay.
C14_InsertIdempotent ==
    [][(/\ pc = "live"
        /\ op' = "insert"
        /\ ToUsizeOk(arg')
        /\ arg' < set.capacity
        /\ \E g \in TVals : contains(set, arg', g).res = "true") =>
            /\ outcome' = "ok"
            /\ set' = set]_vars

\* C14 witness: on a set that is no longer fresh, a value that is not the last
\* element was inserted and the set still holds two elements
C14_DuplicateOnUsedSet ==
    /\ pc = "live"
    /\ ~fresh
    /\ op = "insert"
    /\ outcome = "ok"
    /\ set.len = 2
    /\ set.dense[0] = arg

\* C15: a set of capacity 0 rejects every insert (with "value out of range" for
\* every value that converts to an index) and answers contains(v) with false
\* for every v, without accessing its buffers.
C15_CapacityZero ==
    [][(pc = "live" /\ set.capacity = 0) =>
        /\ op' = "insert" =>
            /\ outcome' \in {ValueOutOfRange, ConversionFailed}
            /\ ToUsizeOk(arg') => outcome' = ValueOutOfRange
            /\ set' = set
            /\ ~oob'
        /\ op' = "contains" =>
            /\ outcome' = "false"
            /\ ~oob']_vars

\* C15 witness: new() answered false to contains(0)
C15_EmptyLookup ==
    /\ pc = "live"
    /\ set.capacity = 0
    /\ op = "contains"
    /\ arg = 0
    /\ outcome = "false"
    /\ fresh

\* C20: on a non-empty set contains(v) returns true or false for every v with
\* index < capacity, whatever value of T a never-written slot yields.
C20_ContainsNeverFails ==
    (pc = "live" /\ set.len > 0) =>
        \A v \in InRange(set), g \in TVals :
            contains(set, v, g).res \in {"true", "false"}

\* C16: a SparseSet equals another collection (a Vec, a VecDeque or a SparseSet)
\* exactly when the lengths match and the iteration sequences agree position by
\* position: the answer is a function of len and the dense prefix alone, whatever
\* the capacities and the stale slots; two sets holding the same members in
\* different insertion orders compare unequal.
C16_Equality ==
    (pc = "compared") =>
        /\ (outcome = "true") <=>
               /\ Len(rhs) = set.len
               /\ \A k \in 1..set.len : rhs[k] = set.dense[k - 1]
        /\ (op = "eq_set" /\ Range(rhs) = Range(deref(set)) /\ rhs # deref(set)) =>
               outcome = "false"

\* a set iterating 1, 0 was compared with a set iterating 0, 1
C16_SameMembersOtherOrder ==
    /\ pc = "compared"
    /\ op = "eq_set"
    /\ set.capacity = 2
    /\ deref(set) = <<1, 0>>
    /\ rhs = <<0, 1>>
    /\ outcome = "false"

\* C18: from new(), whatever inserts, removes and clears ran, the Vec of an OrdSet
\* is strictly ascending, and contains(e) is true exactly for the elements that
\* were inserted and not removed or cleared since.
C18_OrderedAndUnique ==
    /\ \A i \in 1..Len(ord), j \in 1..Len(ord) : i < j => ord[i] < ord[j]
    /\ \A e \in Elems : OrdSet_contains(ord, e) <=> e \in members
    /\ ordOp = "contains" => (ordRet <=> ordArg \in members)

\* the middle one of three elements was removed
C18_MiddleRemoved ==
    /\ ordOp = "remove"
    /\ ordArg = 1
    /\ ordRet
    /\ ord = <<0, 2>>
    /\ members = {0, 2}

\* C17: in a debug build a thread that owns a guard of a SyncRef (read, write or
\* mapped) and calls read() or write() on it panics with DEADLOCK_MSG inside the
\* call: it never reaches the lock, and the list, the lock and its guards stay
\* as they were; whichever of read and write came first and comes second.
C17_DeadlockDetected ==
    [][\A t \in ThreadIds :
          (held[t] # <<>> /\ sthread' = t /\ sact' \in {"read", "write"}) =>
              /\ sret' = DEADLOCK_MSG
              /\ at'[t] = "idle"
              /\ UNCHANGED <<ids, lock, held>>]_syncVars

\* a thread holding a read guard, beside another reader, called write() and panicked
C17_WriteUnderOwnReadGuard ==
    /\ held[1] = <<"read">>
    /\ held[2] = <<"read">>
    /\ sact = "write"
    /\ sthread = 1
    /\ sret = DEADLOCK_MSG
    /\ at[1] = "idle"

\* What a caller sees of the set s of the heap h: capacity, len, the iteration
\* sequence, and the answer of contains for every in-range value (g being what
\* a slot nothing wrote reads as)
Obs(h, s) ==
    [capacity |-> s.capacity,
     len      |-> s.len,
     iter     |-> deref(View(h, s)),
     has      |-> [v \in 0..(s.capacity - 1), g \in TVals |->
                      contains(View(h, s), v, g).res]]

\* C11: the step s2 = s1.clone() gives s2 the capacity, len, iteration sequence
\* and contains answers of s1 (of any capacity, 0 included) in blocks of its own;
\* dropping s1 leaves all of that as it was, and s2 never points at a block that
\* is not live.
C11_CloneAgrees ==
    /\ [][(sets[2].st = "none" /\ sets'[2].st = "live") =>
              /\ Obs(heap', sets'[2]) = Obs(heap, sets[1])
              /\ Obs(heap', sets'[1]) = Obs(heap, sets[1])
              /\ (sets[1].capacity > 0) =>
                     ({sets'[2].dense, sets'[2].sparse} \cap
                      {sets'[1].dense, sets'[1].sparse} = {})]_heapVars
    /\ [][(sets[2].st = "live" /\ sets[1].st = "live" /\ sets'[1].st = "dropped") =>
              /\ sets'[2].st = "live"
              /\ Obs(heap', sets'[2]) = Obs(heap, sets[2])]_heapVars
    /\ [](sets[2].st = "live" => ~Stale(heap, sets[2]))

\* the source of a clone holding 0 was dropped; the clone is live and holds 0
C11_CloneOutlivesSource ==
    /\ sets[1].st = "dropped"
    /\ hwho = 1
    /\ sets[2].st = "live"
    /\ sets[2].capacity = 1
    /\ deref(View(heap, sets[2])) = <<0>>
    /\ \A g \in TVals : contains(View(heap, sets[2]), 0, g).res = "true"

\* C12: while a set and its clone both exist, an insert, clear or resize on one
\* of them leaves the other one's capacity, len, iteration sequence, membership
\* and buffer contents as they were, whichever of the two is operated on.
C12_CloneIndependence ==
    [][\A i \in 1..2, j \in 1..2 :
          (/\ i # j
           /\ hwho' = i
           /\ sets[i].st = "live" /\ sets[j].st = "live"
           /\ sets'[i].st = "live") =>
              /\ sets'[j].st = "live"
              /\ Obs(heap', sets'[j]) = Obs(heap, sets[j])
              /\ View(heap', sets'[j]) = View(heap, sets[j])]_heapVars

\* the source holds 0 and was then resized to capacity 0 while its clone still
\* holds 0
C12_SourceResizedCloneKept ==
    /\ hwho = 1
    /\ sets[1].st = "live"
    /\ sets[1].capacity = 0
    /\ sets[2].st = "live"
    /\ sets[2].capacity = 1
    /\ deref(View(heap, sets[2])) = <<0>>

\* C19: whatever with_capacity, resize, clone and drop calls ran, no block is
\* released twice, no released block is accessed, and once every set is dropped
\* no block is left live.
C19_BufferLifecycle ==
    /\ hbad = "none"
    /\ (~hdead /\ \A i \in 1..2 : sets[i].st # "live") =>
           \A b \in Blocks : heap[b].st # "live"

\* C21: an OrdSet that came out of deserialize, whatever the list (repeats
\* included), is strictly ascending, its len counts the distinct elements, and
\* after remove(e) contains(e) is false.
C21_DecodedOrderedAndUnique ==
    /\ \A i \in 1..Len(ord), j \in 1..Len(ord) : i < j => ord[i] < ord[j]
    /\ Len(ord) = Cardinality(members)
    /\ ordOp = "remove" => ~OrdSet_contains(ord, ordArg)

\* C23: insert(e) returns true exactly when an element equal to e was in the set
\* (len stays) and false exactly when e was added (len grows by 1); remove(e)
\* returns true exactly when e was in the set, then len shrinks by 1 and
\* contains(e) is false afterwards, and otherwise the set stays as it was.
C23_ReturnValues ==
    [][LET e       == ordArg'
           present == \E k \in 1..Len(ord) : ord[k] = e
       IN  /\ ordOp' = "insert" =>
                  /\ ordRet' <=> present
                  /\ present => Len(ord') = Len(ord)
                  /\ ~present => Len(ord') = Len(ord) + 1
                  /\ \E k \in 1..Len(ord') : ord'[k] = e
           /\ ordOp' = "remove" =>
                  /\ ordRet' <=> present
                  /\ present => (Len(ord') = Len(ord) - 1 /\ ~OrdSet_contains(ord', e))
                  /\ ~present => ord' = ord]_ordVars

\* how often the id is in the list
Times(tids, id) == Cardinality({k \in 1..Len(tids) : tids[k] = id})

\* the thread is inside read() or write(), past the check, at the lock
Waiting(t) == at[t] \in {"lock_read", "lock_write"}

\* the thread owns a guard (plain or mapped) whose drop has not begun
Holding(t) == held[t] # <<>>

\* C22: in every state of every interleaving the list of a SyncRef holds the id
\* of a thread once when the thread waits for the lock or owns a guard (plain or
\* mapped) and not at all otherwise; a guard's drop takes the id out before it
\* releases the lock; a thread that owns no guard, having dropped its guards or
\* not, gets through the check of read() and write() without the deadlock panic,
\* whatever guards other threads hold.
C22_ListTracksGuards ==
    /\ [](\A t \in ThreadIds :
             /\ Times(ids, t) = IF Waiting(t) \/ Holding(t) THEN 1 ELSE 0
             /\ at[t] \in {"unlock_read", "unlock_write"} => Times(ids, t) = 0)
    /\ [][\A t \in ThreadIds :
             /\ (sact' = "drop" /\ sthread' = t) =>
                    (Times(ids, t) = 1 /\ Times(ids', t) = 0)
             /\ (sact' \in {"read", "write"} /\ sthread' = t /\ ~Holding(t)) =>
                    (sret' = "ok" /\ Waiting(t)' /\ Times(ids', t) = 1)]_syncVars

\* a thread took a read guard beside the mapped read guard of another thread,
\* dropped it, and is past the check of read() again
C22_ReaderBackBesideReader ==
    /\ held[2] = <<"map_read">>
    /\ held[1] = <<>>
    /\ lock.readers = 1
    /\ at[1] = "lock_read"
    /\ ids = <<2, 1>>
    /\ sact = "read"
    /\ sthread = 1
    /\ sret = "ok"

\* where a reader of JSON text stands after the first i chars of s: outside a
\* string ("out"), inside one ("in"), or inside one right after a backslash
\* ("esc"), where the next char belongs to the string whatever it is
RECURSIVE Lexed(_, _)
Lexed(s, i) ==
    IF i = 0 THEN "out"
    ELSE LET before == Lexed(s, i - 1)
         IN  IF before = "out" THEN (IF s[i] = "\"" THEN "in" ELSE "out")
             ELSE IF before = "esc" THEN "in"
             ELSE IF s[i] = "\"" THEN "out"
             ELSE IF s[i] = "\\" THEN "esc"
             ELSE "in"

\* s without its whitespace outside strings
RECURSIVE StrippedFrom(_, _)
StrippedFrom(s, i) ==
    IF i > Len(s) THEN <<>>
    ELSE IF Lexed(s, i - 1) = "out" /\ is_whitespace(s[i])
    THEN StrippedFrom(s, i + 1)
    ELSE <<s[i]>> \o StrippedFrom(s, i + 1)

\* C24: strip_ws_json! returns on every input: each turn of its loop reads at
\* least one char or breaks. What it returns is the input without the whitespace
\* that stands outside double-quoted strings, all else kept in order: inside a
\* string nothing is removed, a quote after a backslash does not close the
\* string, a string without its closing quote runs to the end. Called on its
\* own result it returns that result.
C24_StripWsJson ==
    /\ []((wsPc = "done" /\ wsPass = 1) => wsOut = StrippedFrom(wsInput, 1))
    /\ []((wsPc = "done" /\ wsPass = 2) => wsOut = wsFirst)
    /\ [][(wsPc = "run" /\ wsPc' = "run") => Len(wsInp') < Len(wsInp)]_wsVars
    /\ (wsPc = "run") ~> (wsPc = "done")

\* a blank, then a string that holds an escaped quote and a blank and is never
\* closed: the blank outside went, the rest stayed, and the second call agreed
C24_EscapedQuoteInOpenString ==
    /\ wsInput = <<" ", "\"", "\\", "\"", " ">>
    /\ wsPc = "done"
    /\ wsPass = 2
    /\ wsFirst = <<"\"", "\\", "\"", " ">>
    /\ wsOut = wsFirst

\* text with the padding put in before every char that comes right after a newline
RECURSIVE PaddedFrom(_, _, _)
PaddedFrom(text, padding, i) ==
    IF i > Len(text) THEN <<>>
    ELSE (IF i > 1 /\ text[i - 1] = "\n" THEN padding ELSE <<>>)
             \o <<text[i]>> \o PaddedFrom(text, padding, i + 1)

IsPrefix(p, s) == Len(p) <= Len(s) /\ SubSeq(s, 1, Len(p)) = p

\* C25: after any write_str calls that returned Ok, however the text was cut
\* into calls, the Formatter has received the text with the padding once before
\* each char that follows a newline, in the same call or a later one: none at
\* the start, none after a newline that ends the text so far, which on_newline
\* remembers. A write_str of the empty string changes neither. A call that
\* returned Err stopped inside that output.
C25_PaddingAfterNewline ==
    /\ [](ppRes = "ok" =>
             /\ ppOut = PaddedFrom(ppAsked, ppPad, 1)
             /\ ppNl <=> (ppAsked # <<>> /\ ppAsked[Len(ppAsked)] = "\n"))
    /\ [](ppRes = "err" => IsPrefix(ppOut, PaddedFrom(ppAsked, ppPad, 1)))
    /\ [][(ppRes = "ok" /\ ppS' = <<>>) => UNCHANGED <<ppOut, ppNl>>]_ppVars

\* a newline ended one call, the next call began with a letter and ended with
\* a newline: one padding, before the letter
C25_PaddingInLaterCall ==
    /\ ppRes = "ok"
    /\ ppPad = <<">", ">">>
    /\ ppAsked = <<"a", "\n", "a", "\n">>
    /\ ppS = <<"a", "\n">>
    /\ ppOut = <<"a", "\n", ">", ">", "a", "\n">>
    /\ ppNl

================================================================
